---- MODULE Spec2Model ----
(***************************************************************************)
(* Model of the ELRU buffer replacement strategy of freelist_elru.c: the   *)
(* doubly linked ELRU stack over a fixed node table, the free list, the    *)
(* private ring of a requester, and the operations StrategyAccessBuffer,   *)
(* StrategyGetBuffer and StrategyFreeBuffer that act on them.              *)
(*                                                                         *)
(* Node pointers are node ids (the node table is a fixed array), NULL is   *)
(* the null pointer.  Time is counted in ticks of 2^30 ns, so the 32-bit   *)
(* int that compareELRU returns spans TicksPerInt = 2^32 / 2^30 ticks.     *)
(***************************************************************************)
EXTENDS Integers, Sequences, FiniteSets, TLC

\* ---------------------------------------------------------------- bounds
NBuffers == 3
MaxTime == 2
MaxStep == 2
MaxUsage == 1
MaxRef == 1
RingSize == 1
MaxAllocs == 1
NBackends == 2
MaxCalls == 2
MaxNotices == 2
MaxProcno == 0
MaxRing == 2
MaxOps == 2

\* ------------------------------------------------------------- constants
TIMESTAMP_NIL == -1
NULL == -1
FREENEXT_END_OF_LIST == -1
FREENEXT_NOT_IN_LIST == -2
InvalidBuffer == 0
NoProc == -1
TicksPerInt == 4

Frames == 0 .. (NBuffers - 1)
NodePtr == Frames \cup {NULL}
ClockSteps == 0 .. MaxStep
Backends == 1 .. NBackends
Procnos == 0 .. MaxProcno
SpinLocks == {"buffer_strategy_lock", "stack_lock", "lru_lock"}

VARIABLES
    last_accessed,          \* elruStack[i].last_accessed
    second_last_accessed,   \* elruStack[i].second_last_accessed
    prev,                   \* elruStack[i].prev (toward the top)
    next,                   \* elruStack[i].next (toward the bottom)
    stackTop,               \* StrategyControl->stackTop
    stackBottom,            \* StrategyControl->stackBottom
    firstFreeBuffer,        \* StrategyControl->firstFreeBuffer
    lastFreeBuffer,         \* StrategyControl->lastFreeBuffer
    freeNext,               \* BufferDesc.freeNext of every descriptor
    hdrLocked,              \* descriptor header spinlock held
    ring_btype,             \* strategy->btype of the requester's ring
    ring_buffers,           \* strategy->buffers[] of the requester's ring
    ring_current,           \* strategy->current
    bgwprocno,              \* StrategyControl->bgwprocno
    numBufferAllocs,        \* StrategyControl->numBufferAllocs
    nextVictimBuffer,       \* StrategyControl->nextVictimBuffer
    completePasses,         \* StrategyControl->completePasses
    latch,                  \* processes whose procLatch has been set
    clock,                  \* last value read from CLOCK_MONOTONIC, in ticks
    fault,                  \* "none", or how the running call died
    op,                     \* "idle", or the StrategyGetBuffer call that has
                            \* just ended, with its result
    pc,                     \* where each backend stands in StrategyGetBuffer
    local,                  \* each backend's locals: bgwprocno and buf
    sync,                   \* what the last StrategySyncStart handed back
    calls,                  \* StrategyGetBuffer calls entered so far
    tally,                  \* sum of the num_buf_alloc handed back so far
    notices,                \* StrategyNotifyBgWriter calls so far
    signals,                \* SetLatch calls made for each of them
    owner,                  \* who holds each spinlock and each header lock
    ctx                     \* each backend's call in progress, lock by lock

vars == << last_accessed, second_last_accessed, prev, next, stackTop,
           stackBottom, firstFreeBuffer, lastFreeBuffer, freeNext, hdrLocked,
           ring_btype, ring_buffers, ring_current, bgwprocno,
           numBufferAllocs, nextVictimBuffer, completePasses, latch, clock,
           fault, op, pc, local, sync, calls, tally, notices, signals,
           owner, ctx >>

\* The variables that only the interleaved calls of several backends use.
lockVars == << owner, ctx >>
backendVars == << pc, local, sync, calls, tally, notices, signals, lockVars >>

\* The shared memory a call works on, as one record.
Mem ==
    [ la |-> last_accessed, sla |-> second_last_accessed,
      prev |-> prev, next |-> next, top |-> stackTop, bottom |-> stackBottom,
      first |-> firstFreeBuffer, last |-> lastFreeBuffer, freeNext |-> freeNext,
      locked |-> hdrLocked, btype |-> ring_btype, ring |-> ring_buffers,
      current |-> ring_current,
      bgw |-> bgwprocno, allocs |-> numBufferAllocs,
      victim |-> nextVictimBuffer, passes |-> completePasses, latch |-> latch,
      fault |-> "none", outcome |-> "none", ret |-> NULL, path |-> "none",
      read |-> {} ]

Commit(m) ==
    /\ last_accessed' = m.la
    /\ second_last_accessed' = m.sla
    /\ prev' = m.prev
    /\ next' = m.next
    /\ stackTop' = m.top
    /\ stackBottom' = m.bottom
    /\ firstFreeBuffer' = m.first
    /\ lastFreeBuffer' = m.last
    /\ freeNext' = m.freeNext
    /\ hdrLocked' = m.locked
    /\ ring_btype' = m.btype
    /\ ring_buffers' = m.ring
    /\ ring_current' = m.current
    /\ bgwprocno' = m.bgw
    /\ numBufferAllocs' = m.allocs
    /\ nextVictimBuffer' = m.victim
    /\ completePasses' = m.passes
    /\ latch' = m.latch
    /\ fault' = m.fault

\* ------------------------------------------------------------ comparator
\* Conversion of a long long difference of d ticks to the int returned.
ToInt(d) ==
    LET r == d % TicksPerInt
    IN  IF 2 * r >= TicksPerInt THEN r - TicksPerInt ELSE r

isRemovedNode(m, n) ==
    m.la[n] = TIMESTAMP_NIL /\ m.sla[n] = TIMESTAMP_NIL

compareELRU(m, a, b) ==
    IF isRemovedNode(m, a) THEN 1
    ELSE IF isRemovedNode(m, b) THEN -1
    ELSE IF m.sla[a] = TIMESTAMP_NIL /\ m.sla[b] = TIMESTAMP_NIL
         THEN ToInt(m.la[a] - m.la[b])
    ELSE IF m.sla[a] = TIMESTAMP_NIL THEN -1
    ELSE IF m.sla[b] = TIMESTAMP_NIL THEN 1
    ELSE ToInt(m.sla[a] - m.sla[b])

\* ------------------------------------------------------------- insertion
\* Link node directly below current (between current->next and current).
LinkBelow(m, node, current) ==
    LET m1 == [m EXCEPT !.prev[m.next[current]] = node]
        m2 == [m1 EXCEPT !.next[node] = m1.next[current]]
        m3 == [m2 EXCEPT !.next[current] = node]
    IN  [m3 EXCEPT !.prev[node] = current]

\* current is the stack top: lines 261-281.
InsertAtTop(m, node, current) ==
    IF compareELRU(m, node, current) > 0
    THEN LET m1 == [m EXCEPT !.prev[current] = node]
             m2 == [m1 EXCEPT !.next[node] = current]
             m3 == [m2 EXCEPT !.prev[node] = NULL]
         IN  [m3 EXCEPT !.top = node]
    ELSE IF m.next[current] = NULL
         THEN LET m1 == [m EXCEPT !.prev[node] = current]
                  m2 == [m1 EXCEPT !.next[current] = node]
              IN  [m2 EXCEPT !.bottom = node]
         ELSE LinkBelow(m, node, current)

\* current is not the top and node sorts at or below it: lines 284-299.
InsertBelow(m, node, current) ==
    IF m.next[current] = NULL
    THEN LET m1 == [m EXCEPT !.bottom = node]
             m2 == [m1 EXCEPT !.prev[node] = current]
             m3 == [m2 EXCEPT !.next[node] = NULL]
         IN  [m3 EXCEPT !.next[current] = node]
    ELSE LinkBelow(m, node, current)

RECURSIVE InsertWalk(_, _, _, _)
InsertWalk(m, node, current, fuel) ==
    IF current = NULL THEN m
    ELSE IF fuel = 0 THEN [m EXCEPT !.fault = "hang"]
    ELSE IF m.top = NULL THEN [m EXCEPT !.fault = "segv"]
    ELSE IF current = m.top THEN InsertAtTop(m, node, current)
    ELSE IF compareELRU(m, node, current) <= 0 THEN InsertBelow(m, node, current)
    ELSE InsertWalk(m, node, m.prev[current], fuel - 1)

processStackBottomToTop(m, node) ==
    IF m.bottom = NULL
    THEN [m EXCEPT !.bottom = node, !.top = node,
                   !.next[node] = NULL, !.prev[node] = NULL]
    ELSE InsertWalk(m, node, m.bottom, NBuffers + 1)

\* ------------------------------------------------------------------ touch
\* Whether following prev from n reaches NULL (the loop of lines 420-423).
RECURSIVE PrevEnds(_, _, _)
PrevEnds(m, n, fuel) ==
    IF n = NULL THEN TRUE
    ELSE IF fuel = 0 THEN FALSE
    ELSE PrevEnds(m, m.prev[n], fuel - 1)

\* Lines 408-426: take a linked node out of the stack.
Unlink(m, id) ==
    IF m.bottom = NULL THEN [m EXCEPT !.fault = "segv"]
    ELSE IF m.bottom = id
    THEN LET m1 == [m EXCEPT !.bottom = m.prev[id]]
         IN  IF m.prev[id] = NULL THEN [m1 EXCEPT !.fault = "segv"]
             ELSE [m1 EXCEPT !.next[m.prev[id]] = NULL]
    ELSE IF m.top = NULL THEN [m EXCEPT !.fault = "segv"]
    ELSE IF m.top = id
    THEN LET m1 == [m EXCEPT !.top = m.next[id]]
         IN  IF m.next[id] = NULL THEN [m1 EXCEPT !.fault = "segv"]
             ELSE [m1 EXCEPT !.prev[m.next[id]] = NULL]
    ELSE IF ~PrevEnds(m, id, NBuffers + 1) THEN [m EXCEPT !.fault = "hang"]
    ELSE LET m1 == IF m.next[id] # NULL
                   THEN [m EXCEPT !.prev[m.next[id]] = m.prev[id]] ELSE m
         IN  IF m1.prev[id] # NULL
             THEN [m1 EXCEPT !.next[m1.prev[id]] = m1.next[id]] ELSE m1

\* StrategyAccessBuffer(buf_id, delete) reading the clock as now.  The
\* delete branch is guarded by if (false), so delete is never looked at.
StrategyAccessBuffer(m, buf_id, delete, now) ==
    LET m1 == [m EXCEPT !.sla[buf_id] = m.la[buf_id], !.la[buf_id] = now]
    IN  IF /\ m1.prev[buf_id] = NULL
           /\ m1.next[buf_id] = NULL
           /\ (m1.top = NULL \/ m1.top # buf_id)
        THEN processStackBottomToTop(m1, buf_id)
        ELSE LET u == Unlink(m1, buf_id)
             IN  IF u.fault # "none" THEN u
                 ELSE processStackBottomToTop(u, buf_id)

\* ------------------------------------------------------------------- ring
\* GetBufferFromRing: advance the cursor and offer the slot's buffer.  The
\* result has ret = NULL when the ring offers nothing, else ret is the buffer
\* and its header is left locked.
GetBufferFromRing(m, rc, uc) ==
    LET cur == IF m.current + 1 >= RingSize THEN 0 ELSE m.current + 1
        m1 == [m EXCEPT !.current = cur]
        bufnum == m1.ring[cur]
        buf == bufnum - 1
    IN  IF bufnum = InvalidBuffer THEN m1
        ELSE IF m1.locked[buf] THEN [m1 EXCEPT !.outcome = "blocked"]
        ELSE IF rc[buf] = 0 /\ uc[buf] <= 1
             THEN [m1 EXCEPT !.locked[buf] = TRUE, !.ret = buf,
                             !.read = @ \cup {buf}]
        ELSE [m1 EXCEPT !.read = @ \cup {buf}]

\* ------------------------------------------------------------ acquisition
Finish(m, buf, path) ==
    IF m.fault # "none" THEN [m EXCEPT !.outcome = m.fault, !.path = path]
    ELSE [m EXCEPT !.outcome = "returned", !.ret = buf, !.path = path]

\* Lines 582-626: walk the stack from the bottom for an unpinned victim.
RECURSIVE VictimWalk(_, _, _, _, _)
VictimWalk(m, victim, rc, now, fuel) ==
    IF victim = NULL THEN [m EXCEPT !.outcome = "undefined", !.path = "elru"]
    ELSE IF fuel = 0
         THEN [m EXCEPT !.fault = "hang", !.outcome = "hang", !.path = "elru"]
    ELSE IF m.locked[victim] THEN [m EXCEPT !.outcome = "blocked"]
    ELSE LET r == [m EXCEPT !.read = @ \cup {victim}]
         IN  IF rc[victim] = 0
             THEN LET m1 == [r EXCEPT !.locked[victim] = TRUE,
                                      !.la[victim] = TIMESTAMP_NIL,
                                      !.sla[victim] = TIMESTAMP_NIL]
                  IN  Finish(StrategyAccessBuffer(m1, victim, FALSE, now),
                             victim, "elru")
             ELSE IF r.top = NULL
                  THEN [r EXCEPT !.fault = "segv", !.outcome = "segv",
                                 !.path = "elru"]
             ELSE IF r.top = victim
                  THEN [r EXCEPT !.outcome = "error", !.path = "elru"]
             ELSE VictimWalk(r, r.prev[victim], rc, now, fuel - 1)

\* Lines 528-579: pop the free list until a usable buffer turns up.
RECURSIVE FreeListLoop(_, _, _, _)
FreeListLoop(m, rc, uc, now) ==
    IF m.first < 0 THEN VictimWalk(m, m.bottom, rc, now, NBuffers)
    ELSE LET buf == m.first
             m1 == [m EXCEPT !.first = m.freeNext[buf],
                             !.freeNext[buf] = FREENEXT_NOT_IN_LIST,
                             !.read = @ \cup {buf}]
         IN  IF m1.locked[buf] THEN [m1 EXCEPT !.outcome = "blocked"]
             ELSE IF rc[buf] = 0 /\ uc[buf] = 0
                  THEN Finish(StrategyAccessBuffer(
                                  [m1 EXCEPT !.locked[buf] = TRUE],
                                  buf, FALSE, now),
                              buf, "freelist")
             ELSE FreeListLoop(m1, rc, uc, now)

\* Lines 491-510: wake the bgwriter if asked, count the allocation.
WakeAndCount(m) ==
    LET m1 == IF m.bgw # NoProc
              THEN [m EXCEPT !.bgw = NoProc, !.latch = @ \cup {m.bgw}]
              ELSE m
    IN  [m1 EXCEPT !.allocs = @ + 1]

\* StrategyGetBuffer(strategy, ...): strategy is TRUE for the requester's
\* ring, FALSE for NULL.
StrategyGetBuffer(m, strategy, rc, uc, now) ==
    LET r == IF strategy THEN GetBufferFromRing(m, rc, uc) ELSE m
    IN  IF r.outcome = "blocked" THEN r
        ELSE IF r.ret # NULL
             THEN Finish(StrategyAccessBuffer(r, r.ret, FALSE, now),
                         r.ret, "ring")
        ELSE LET m2 == WakeAndCount(r)
             IN  IF m2.first >= 0
                 THEN FreeListLoop(m2, rc, uc, now)
                 ELSE VictimWalk(m2, m2.bottom, rc, now, NBuffers)

\* ---------------------------------------------------------------- release
\* StrategyFreeBuffer without its test of freeNext: pushes whatever it is
\* given.
StrategyFreeBufferUntested(m, buf, now) ==
    LET m1 == [m EXCEPT !.freeNext[buf] = m.first]
        m2 == IF m1.freeNext[buf] < 0 THEN [m1 EXCEPT !.last = buf] ELSE m1
        m3 == [m2 EXCEPT !.first = buf]
    IN  StrategyAccessBuffer(m3, buf, TRUE, now)

\* StrategyFreeBuffer(buf): push on the free list unless already there.
StrategyFreeBuffer(m, buf, now) ==
    IF m.freeNext[buf] = FREENEXT_NOT_IN_LIST
    THEN LET m1 == [m EXCEPT !.freeNext[buf] = m.first]
             m2 == IF m1.freeNext[buf] < 0 THEN [m1 EXCEPT !.last = buf] ELSE m1
             m3 == [m2 EXCEPT !.first = buf]
         IN  StrategyAccessBuffer(m3, buf, TRUE, now)
    ELSE m

\* ---------------------------------------------------------------- actions
\* The descriptor table belongs to the buffer manager: a call sees whatever
\* pin counts and usage counts it holds when the header is locked.
DescriptorTables == [Frames -> 0 .. MaxRef]
UsageTables == [Frames -> 0 .. MaxUsage]
Unread == -1

\* What a call leaves for its caller: its name and argument or result, how it
\* ended, and the state words it read under header locks.
Result(name, id, outcome, path, read, rc, uc) ==
    [name |-> name, id |-> id, outcome |-> outcome, path |-> path,
     refcount |-> [f \in Frames |-> IF f \in read THEN rc[f] ELSE Unread],
     usage_count |-> [f \in Frames |-> IF f \in read THEN uc[f] ELSE Unread]]

NoTable == [f \in Frames |-> Unread]

\* What the caller of StrategyGetBuffer holds as the returned descriptor.  A
\* call that leaves the victim loop at victim == NULL reaches the closing
\* brace of a function returning BufferDesc * without a return statement:
\* the caller reads an indeterminate value, any descriptor or none (NULL).
Received(m) == IF m.outcome = "undefined" THEN NodePtr ELSE {m.ret}

\* No call is in progress and no result is waiting to be taken.
Idle == op.name = "idle"

\* The state words a call has to be tried with.  The loops test refcount == 0
\* together with usage_count == 0, or refcount alone: a pinned buffer drives
\* them the same way whatever its usage_count, so only one usage_count is
\* tried with a nonzero refcount.
Canonical(rc, uc) == \A f \in Frames : rc[f] > 0 => uc[f] = MaxUsage

\* The tables a call can tell apart: what the call does not read is left at
\* zero.
Observable(read, rc, uc) ==
    \A f \in Frames : f \notin read => (rc[f] = 0 /\ uc[f] = 0)

\* StrategyInitialize, and no call made yet.
StrategyInitialize ==
    /\ last_accessed = [i \in Frames |-> TIMESTAMP_NIL]
    /\ second_last_accessed = [i \in Frames |-> TIMESTAMP_NIL]
    /\ prev = [i \in Frames |-> NULL]
    /\ next = [i \in Frames |-> NULL]
    /\ stackTop = NULL
    /\ stackBottom = NULL
    /\ firstFreeBuffer = 0
    /\ lastFreeBuffer = NBuffers - 1
    /\ freeNext = [i \in Frames |->
                     IF i = NBuffers - 1 THEN FREENEXT_END_OF_LIST ELSE i + 1]
    /\ hdrLocked = [i \in Frames |-> FALSE]
    /\ bgwprocno = NoProc
    /\ numBufferAllocs = 0
    /\ nextVictimBuffer = 0
    /\ completePasses = 0
    /\ latch = {}
    /\ clock = 0
    /\ fault = "none"
    /\ op = Result("idle", NULL, "none", "none", {}, NoTable, NoTable)
    /\ pc = [p \in Backends |-> "idle"]
    /\ local = [p \in Backends |->
                  [bgwprocno |-> NoProc, notice |-> 0, buf |-> NULL]]
    /\ sync = [result |-> 0, complete_passes |-> 0, num_buf_alloc |-> 0]
    /\ calls = 0
    /\ tally = 0
    /\ notices = 0
    /\ signals = [n \in 0 .. MaxNotices |-> 0]
    /\ owner = [spin |-> [l \in SpinLocks |-> 0], hdr |-> [f \in Frames |-> 0]]
    /\ ctx = [p \in Backends |-> [call |-> "none", buf |-> NULL, n |-> 0]]

\* The requester's ring as GetAccessStrategyWithSize allocates it (palloc0).
Init ==
    /\ StrategyInitialize
    /\ ring_btype = "BAS_BULKREAD"
    /\ ring_buffers = [i \in 0 .. (RingSize - 1) |-> InvalidBuffer]
    /\ ring_current = 0

\* touch(id): the buffer manager records an access.
Touch(id) ==
    /\ fault = "none"
    /\ Idle
    /\ \E d \in ClockSteps :
         /\ clock + d <= MaxTime
         /\ LET m == StrategyAccessBuffer(Mem, id, FALSE, clock + d)
            IN  /\ Commit(m)
                /\ clock' = clock + d
    /\ UNCHANGED << op, backendVars >>

\* acquire_frame(ring?): one call of StrategyGetBuffer.
Acquire(strategy) ==
    /\ fault = "none"
    /\ Idle
    /\ numBufferAllocs < MaxAllocs
    /\ \E d \in ClockSteps, rc \in DescriptorTables, uc \in UsageTables :
         /\ clock + d <= MaxTime
         /\ Canonical(rc, uc)
         /\ LET m == StrategyGetBuffer(Mem, strategy, rc, uc, clock + d)
            IN  /\ m.outcome # "blocked"
                /\ Observable(m.read, rc, uc)
                /\ Commit(m)
                /\ clock' = IF m.outcome \in {"returned", "segv", "hang"}
                            THEN clock + d ELSE clock
                /\ \E got \in Received(m) :
                       op' = Result("acquire", got, m.outcome, m.path, m.read,
                                    rc, uc)
    /\ UNCHANGED backendVars

\* release_frame(id): one call of StrategyFreeBuffer.
Release(id) ==
    /\ fault = "none"
    /\ Idle
    /\ \E d \in ClockSteps :
         /\ clock + d <= MaxTime
         /\ LET m == StrategyFreeBuffer(Mem, id, clock + d)
            IN  /\ Commit(m)
                /\ clock' = IF freeNext[id] = FREENEXT_NOT_IN_LIST
                            THEN clock + d ELSE clock
    /\ UNCHANGED << op, backendVars >>

\* The caller of StrategyGetBuffer takes the result; a caller that was handed
\* a buffer finishes its bookkeeping and unlocks the header (UnlockBufHdr).
Return ==
    /\ fault = "none"
    /\ op.name = "acquire"
    /\ hdrLocked' = [i \in Frames |-> FALSE]
    /\ op' = Result("idle", NULL, "none", "none", {}, NoTable, NoTable)
    /\ UNCHANGED << last_accessed, second_last_accessed, prev, next, stackTop,
                    stackBottom, firstFreeBuffer, lastFreeBuffer, freeNext,
                    ring_btype, ring_buffers, ring_current, bgwprocno,
                    numBufferAllocs, nextVictimBuffer, completePasses, latch, clock, fault,
                    backendVars >>

Next ==
    \/ \E id \in Frames : Touch(id)
    \/ \E strategy \in BOOLEAN : Acquire(strategy)
    \/ \E id \in Frames : Release(id)
    \/ Return

Spec == Init /\ [][Next]_vars

\* ------------------------------------------------------- reading the state
\* The nodes met walking from n along link (prev or next) until NULL, at
\* most fuel of them.
RECURSIVE Chain(_, _, _)
Chain(link, n, fuel) ==
    IF n = NULL \/ fuel = 0 THEN << >>
    ELSE << n >> \o Chain(link, link[n], fuel - 1)

\* Bottom to top, as the victim walk sees the stack.
BottomUp == Chain(prev, stackBottom, NBuffers + 1)
\* Top to bottom.
TopDown == Chain(next, stackTop, NBuffers + 1)

Reverse(q) == [i \in 1 .. Len(q) |-> q[Len(q) + 1 - i]]
Range(q) == {q[i] : i \in 1 .. Len(q)}

OnStack(f) == f \in Range(BottomUp)
Resident(f) == last_accessed[f] # TIMESTAMP_NIL
InFreeList(f) == freeNext[f] # FREENEXT_NOT_IN_LIST
\* The free list from its head.
FreeList ==
    Chain([f \in Frames |-> IF freeNext[f] < 0 THEN NULL ELSE freeNext[f]],
          IF firstFreeBuffer < 0 THEN NULL ELSE firstFreeBuffer, NBuffers + 1)

Tier(f) == IF second_last_accessed[f] = TIMESTAMP_NIL THEN 0 ELSE 1
Rank(f) == IF Tier(f) = 0 THEN last_accessed[f] ELSE second_last_accessed[f]

\* A step that is one call of StrategyGetBuffer.
AcquireStep == op.name = "idle" /\ op'.name = "acquire"

\* A step in which StrategyFreeBuffer pushes f on the free list.
ReleaseStep(f) ==
    /\ freeNext[f] = FREENEXT_NOT_IN_LIST
    /\ freeNext'[f] # FREENEXT_NOT_IN_LIST

\* What table t held for f during the call whose result is r: a word the
\* call did not read was zero.
Held(t, f) == IF t[f] = Unread THEN 0 ELSE t[f]

\* The least position of a nonempty set of positions.
Least(S) == CHOOSE i \in S : \A j \in S : i <= j

\* ------------------------------------------------------------------ claims
\* C1: a victim chosen on the ELRU path is never a frame touched at least
\* twice while a resident frame touched only once is unpinned: whenever the
\* victim was in tier 1, every resident tier-0 frame was pinned.
C1_TierZeroFirst ==
    [][(AcquireStep /\ op'.path = "elru" /\ op'.outcome = "returned"
            /\ Tier(op'.id) = 1)
        => \A f \in Frames :
               (Resident(f) /\ Tier(f) = 0) => Held(op'.refcount, f) > 0]_vars

\* C2: after release_frame(f) on a frame not in the free list, f is in the
\* free list, is not linked in the ELRU list, both its links are NULL and
\* both its timestamps are NIL.
C2_ReleaseEvicts ==
    [][\A f \in Frames :
          ReleaseStep(f) =>
              /\ fault' = "none"
              /\ f \in Range(FreeList)'
              /\ f \notin Range(BottomUp)'
              /\ prev'[f] = NULL /\ next'[f] = NULL
              /\ last_accessed'[f] = TIMESTAMP_NIL
              /\ second_last_accessed'[f] = TIMESTAMP_NIL]_vars

\* C3: after every completed operation no frame is both in the free list
\* and in the ELRU list (resident, or linked in the stack).
C3_ResidencyPartition ==
    fault = "none" =>
        \A f \in Frames : ~(InFreeList(f) /\ (Resident(f) \/ OnStack(f)))

\* C4: after every completed operation every adjacent pair (a, b) of the
\* ELRU list, a closer to the bottom, has key(a) <= key(b).
C4_ListOrder ==
    fault = "none" =>
        \A i \in 1 .. (Len(BottomUp) - 1) :
            LET a == BottomUp[i]
                b == BottomUp[i + 1]
            IN  \/ Tier(a) < Tier(b)
                \/ Tier(a) = Tier(b) /\ Rank(a) <= Rank(b)

\* C5: after every completed operation the bottom node has no link on its
\* bottom side, the top node has no link on its top side, and top is NULL
\* iff bottom is NULL iff no frame is resident.
C5_EndpointConsistency ==
    fault = "none" =>
        /\ (stackTop = NULL) <=> (stackBottom = NULL)
        /\ (stackBottom = NULL) <=> (\A f \in Frames : ~Resident(f))
        /\ stackBottom # NULL => next[stackBottom] = NULL
        /\ stackTop # NULL => prev[stackTop] = NULL

\* C6: the toward-top links from the bottom visit every resident node
\* exactly once and end at the top, and the toward-bottom links from the
\* top give the reverse sequence.
C6_EachNodeOnce ==
    fault = "none" =>
        /\ Cardinality(Range(BottomUp)) = Len(BottomUp)
        /\ Range(BottomUp) = {f \in Frames : Resident(f)}
        /\ BottomUp # << >> => BottomUp[Len(BottomUp)] = stackTop
        /\ TopDown = Reverse(BottomUp)

\* C7: every call of acquire_frame ends by returning a frame or by failing
\* with NO_UNPINNED_BUFFER, nothing else.
C7_ReturnsOrFails ==
    op.name = "acquire" => op.outcome \in {"returned", "error"}

\* C8: when the free list yields no usable frame, acquire_frame returns the
\* frame closest to the bottom that is not pinned, and fails with
\* NO_UNPINNED_BUFFER exactly when every resident frame is pinned.
C8_BottomMostUnpinned ==
    [][(/\ AcquireStep
        /\ \A f \in Range(FreeList) :
               Held(op'.refcount, f) > 0 \/ Held(op'.usage_count, f) > 0)
        => LET free == {i \in 1 .. Len(BottomUp) :
                           Held(op'.refcount, BottomUp[i]) = 0}
           IN  IF free = {}
               THEN op'.outcome = "error"
               ELSE /\ op'.outcome = "returned"
                    /\ op'.id = BottomUp[Least(free)]]_vars

\* C9: a frame handed to the caller of acquire_frame was read with
\* refcount 0 and its header lock is held; after NO_UNPINNED_BUFFER no
\* header lock is held.
C9_ReturnedLockedUnpinned ==
    op.name = "acquire" =>
        /\ (op.outcome \in {"returned", "undefined"} /\ op.id \in Frames) =>
               /\ op.refcount[op.id] = 0
               /\ hdrLocked[op.id]
        /\ op.outcome = "error" => \A f \in Frames : ~hdrLocked[f]

\* C10: acquire_frame returns the first frame in free-list order whose
\* descriptor shows refcount 0 and usage_count 0, the frames popped ahead
\* of it leave the free list and are not returned, and the ELRU list is
\* walked only when the free list holds no such frame.
C10_FreeListFirst ==
    [][AcquireStep
        => LET usable == {i \in 1 .. Len(FreeList) :
                             /\ Held(op'.refcount, FreeList[i]) = 0
                             /\ Held(op'.usage_count, FreeList[i]) = 0}
           IN  IF usable = {}
               THEN op'.path # "freelist" /\ FreeList' = << >>
               ELSE /\ op'.outcome = "returned"
                    /\ op'.path = "freelist"
                    /\ op'.id = FreeList[Least(usable)]
                    /\ FreeList' = SubSeq(FreeList, Least(usable) + 1,
                                          Len(FreeList))]_vars

\* Descriptors that are all unpinned and unused.
AllZero == [f \in Frames |-> 0]

\* The memory after the caller that was handed a buffer has unlocked its
\* header.
Unlocked(m) ==
    [m EXCEPT !.locked = [f \in Frames |-> FALSE],
              !.outcome = "none", !.ret = NULL, !.path = "none", !.read = {}]

\* C11: release_frame(f) followed at once by release_frame(f) leaves the
\* free list, the ELRU list and the timestamps (the whole memory) as the
\* first call left them, from every state in which the first call
\* completes.
C11_ReleaseIdempotent ==
    fault = "none" =>
        \A f \in Frames : \A d1, d2 \in ClockSteps :
            LET once == StrategyFreeBuffer(Mem, f, clock + d1)
            IN  once.fault = "none" =>
                    StrategyFreeBuffer(once, f, clock + d1 + d2) = once

\* A state in which a first release pushes a frame and changes the list.
C11_Witness ==
    /\ fault = "none"
    /\ \E f \in Frames :
          LET once == StrategyFreeBuffer(Mem, f, clock)
          IN  /\ freeNext[f] = FREENEXT_NOT_IN_LIST
              /\ once.fault = "none"
              /\ once.first = f
              /\ once.sla[f] # second_last_accessed[f]

\* C12: release_frame(f), then an acquire_frame() that returns f, then
\* touch(f) leave f resident with second_last_accessed = NIL, be it on
\* return from acquire_frame (which touches f itself) or after the touch
\* that follows.
C12_RoundTrip ==
    (fault = "none" /\ Idle) =>
        \A f \in Frames : \A d1, d2, d3 \in ClockSteps :
            LET t1 == clock + d1
                t2 == t1 + d2
                t3 == t2 + d3
                m1 == StrategyFreeBuffer(Mem, f, t1)
                m2 == StrategyGetBuffer(m1, FALSE, AllZero, AllZero, t2)
                m3 == StrategyAccessBuffer(Unlocked(m2), f, FALSE, t3)
            IN  (/\ freeNext[f] = FREENEXT_NOT_IN_LIST
                 /\ m1.fault = "none"
                 /\ m2.outcome = "returned" /\ m2.ret = f)
                => /\ m3.fault = "none"
                   /\ m3.la[f] # TIMESTAMP_NIL
                   /\ (m2.sla[f] = TIMESTAMP_NIL \/ m3.sla[f] = TIMESTAMP_NIL)

\* ------------------------------------------------- interleaved backends
\* Several backends inside StrategyGetBuffer at once, with the background
\* writer calling StrategySyncStart and StrategyNotifyBgWriter.  A call is
\* cut at its accesses to shared memory that no lock orders: the read of
\* bgwprocno (line 491), its reset (495), SetLatch (502) and the atomic
\* fetch-add of numBufferAllocs (510).  The ring belongs to backend 1.

\* StrategySyncStart with a plain read where the source exchanges
\* numBufferAllocs with 0.
StrategySyncStartUnreset(m) ==
    [mem |-> m,
     result |-> m.victim % NBuffers,
     complete_passes |-> m.passes + (m.victim \div NBuffers),
     num_buf_alloc |-> m.allocs]

\* StrategySyncStart (lines 664-691), with both out parameters passed.
StrategySyncStart(m) ==
    [mem |-> [m EXCEPT !.allocs = 0],
     result |-> m.victim % NBuffers,
     complete_passes |-> m.passes + (m.victim \div NBuffers),
     num_buf_alloc |-> m.allocs]

\* StrategyNotifyBgWriter (lines 701-712).
StrategyNotifyBgWriter(m, procno) == [m EXCEPT !.bgw = procno]

\* Lines 462-492: the ring is tried, then bgwprocno is read once.
Enter(p, strategy) ==
    /\ fault = "none"
    /\ pc[p] = "idle"
    /\ strategy => p = 1
    /\ calls < MaxCalls
    /\ calls' = calls + 1
    /\ \E d \in ClockSteps, rc \in DescriptorTables, uc \in UsageTables :
         /\ clock + d <= MaxTime
         /\ Canonical(rc, uc)
         /\ LET r == IF strategy THEN GetBufferFromRing(Mem, rc, uc) ELSE Mem
            IN  /\ r.outcome # "blocked"
                /\ Observable(r.read, rc, uc)
                /\ IF r.ret # NULL
                   THEN /\ Commit(Finish(StrategyAccessBuffer(r, r.ret, FALSE,
                                                              clock + d),
                                         r.ret, "ring"))
                        /\ clock' = clock + d
                        /\ local' = [local EXCEPT ![p].buf = r.ret]
                        /\ pc' = [pc EXCEPT ![p] = "unlock"]
                   ELSE /\ Commit(r)
                        /\ d = 0
                        /\ clock' = clock
                        /\ local' = [local EXCEPT ![p].bgwprocno = bgwprocno,
                                                  ![p].notice = notices]
                        /\ pc' = [pc EXCEPT ![p] = IF bgwprocno # NoProc
                                                   THEN "reset" ELSE "count"]
    /\ UNCHANGED << op, sync, tally, notices, signals >>
    /\ UNCHANGED lockVars

\* Line 495: StrategyControl->bgwprocno = -1.
ResetBgw(p) ==
    /\ fault = "none"
    /\ pc[p] = "reset"
    /\ Commit([Mem EXCEPT !.bgw = NoProc])
    /\ pc' = [pc EXCEPT ![p] = "latch"]
    /\ UNCHANGED << clock, op, local, sync, calls, tally, notices, signals >>
    /\ UNCHANGED lockVars

\* Line 502: SetLatch of the process whose number was read at line 491.
SetLatch(p) ==
    /\ fault = "none"
    /\ pc[p] = "latch"
    /\ Commit([Mem EXCEPT !.latch = @ \cup {local[p].bgwprocno}])
    /\ signals' = [signals EXCEPT ![local[p].notice] = @ + 1]
    /\ pc' = [pc EXCEPT ![p] = "count"]
    /\ UNCHANGED << clock, op, local, sync, calls, tally, notices >>
    /\ UNCHANGED lockVars

\* Line 510: pg_atomic_fetch_add_u32(&StrategyControl->numBufferAllocs, 1).
Count(p) ==
    /\ fault = "none"
    /\ pc[p] = "count"
    /\ Commit([Mem EXCEPT !.allocs = @ + 1])
    /\ pc' = [pc EXCEPT ![p] = "select"]
    /\ UNCHANGED << clock, op, local, sync, calls, tally, notices, signals >>
    /\ UNCHANGED lockVars

\* Lines 528-626: the free list, then the ELRU list, under their locks.
Select(p) ==
    /\ fault = "none"
    /\ pc[p] = "select"
    /\ \E d \in ClockSteps, rc \in DescriptorTables, uc \in UsageTables :
         /\ clock + d <= MaxTime
         /\ Canonical(rc, uc)
         /\ LET m == IF firstFreeBuffer >= 0
                     THEN FreeListLoop(Mem, rc, uc, clock + d)
                     ELSE VictimWalk(Mem, stackBottom, rc, clock + d, NBuffers)
            IN  /\ m.outcome # "blocked"
                /\ Observable(m.read, rc, uc)
                /\ Commit(m)
                /\ clock' = IF m.outcome \in {"returned", "segv", "hang"}
                            THEN clock + d ELSE clock
                /\ local' = [local EXCEPT ![p].buf = IF m.outcome = "returned"
                                                     THEN m.ret ELSE NULL]
    /\ pc' = [pc EXCEPT ![p] = "unlock"]
    /\ UNCHANGED << op, sync, calls, tally, notices, signals >>
    /\ UNCHANGED lockVars

\* The caller of StrategyGetBuffer unlocks the header of the buffer it got.
Unlock(p) ==
    /\ fault = "none"
    /\ pc[p] = "unlock"
    /\ Commit([Mem EXCEPT !.locked = [f \in Frames |->
                                         @[f] /\ f # local[p].buf]])
    /\ local' = [local EXCEPT ![p].buf = NULL]
    /\ pc' = [pc EXCEPT ![p] = "idle"]
    /\ UNCHANGED << clock, op, sync, calls, tally, notices, signals >>
    /\ UNCHANGED lockVars

\* The background writer calls StrategySyncStart.
SyncStart ==
    /\ fault = "none"
    /\ LET s == StrategySyncStart(Mem)
       IN  /\ Commit(s.mem)
           /\ sync' = [result |-> s.result,
                       complete_passes |-> s.complete_passes,
                       num_buf_alloc |-> s.num_buf_alloc]
           /\ tally' = tally + s.num_buf_alloc
    /\ UNCHANGED << clock, op, pc, local, calls, notices, signals >>
    /\ UNCHANGED lockVars

\* The background writer calls StrategyNotifyBgWriter(procno).
Notify(procno) ==
    /\ fault = "none"
    /\ notices < MaxNotices
    /\ Commit(StrategyNotifyBgWriter(Mem, procno))
    /\ notices' = notices + 1
    /\ UNCHANGED << clock, op, pc, local, sync, calls, tally, signals >>
    /\ UNCHANGED lockVars

NextStats ==
    \/ \E p \in Backends, strategy \in BOOLEAN : Enter(p, strategy)
    \/ \E p \in Backends : ResetBgw(p)
    \/ \E p \in Backends : SetLatch(p)
    \/ \E p \in Backends : Count(p)
    \/ \E p \in Backends : Select(p)
    \/ \E p \in Backends : Unlock(p)
    \/ SyncStart
    \/ \E procno \in Procnos \cup {NoProc} : Notify(procno)

SpecStats == Init /\ [][NextStats]_vars

\* The calls that have passed line 510.
Counted ==
    calls - Cardinality({p \in Backends : pc[p] \in {"reset", "latch", "count"}})

Quiescent == \A p \in Backends : pc[p] = "idle"

\* C14: after k acquire_frame calls from initialization, sync_start returns
\* the start index k mod N and the pass count k div N.
C14_SweepPointer ==
    (fault = "none" /\ Quiescent) =>
        LET s == StrategySyncStart(Mem)
        IN  /\ s.result = calls % NBuffers
            /\ s.complete_passes = calls \div NBuffers

\* C15: no notification of the background writer is answered by more than
\* one SetLatch, and none is made before the first notification.
C15_SingleWake ==
    \A n \in 0 .. MaxNotices : signals[n] <= (IF n = 0 THEN 0 ELSE 1)

\* The memories after n successive StrategyGetBuffer calls with the ring, each
\* finding every buffer unpinned and unused, each caller unlocking the header
\* it was handed.
RECURSIVE AcquireWithRing(_, _, _)
AcquireWithRing(m, n, now) ==
    IF n = 0 THEN << >>
    ELSE LET m1 == StrategyGetBuffer(Unlocked(m), TRUE, AllZero, AllZero, now)
         IN  << m1 >> \o AcquireWithRing(m1, n - 1, now)

\* C16: k acquire_frame(ring) calls on a ring of k INVALID slots fill the
\* slots with the frames they return, and the (k+1)-th call returns the frame
\* of the first call, from the ring.
C16_RingReuse ==
    (fault = "none" /\ Idle) =>
        LET run == AcquireWithRing(Mem, RingSize + 1, clock)
        IN  (\A i \in 1 .. (RingSize + 1) : run[i].outcome = "returned") =>
                /\ \A i \in 1 .. RingSize :
                       run[RingSize].ring[run[i].current] = run[i].ret + 1
                /\ run[RingSize + 1].path = "ring"
                /\ run[RingSize + 1].ret = run[1].ret

\* --------------------------------------------------------------- reject
BufferAccessStrategyTypes ==
    {"BAS_NORMAL", "BAS_BULKREAD", "BAS_BULKWRITE", "BAS_VACUUM"}

\* BufferDescriptorGetBuffer: the buffer number of a descriptor.
BufferDescriptorGetBuffer(buf) == buf + 1

\* StrategyRejectBuffer without its test of from_ring.
StrategyRejectBufferAnyOrigin(m, buf, from_ring) ==
    IF m.btype # "BAS_BULKREAD" THEN [mem |-> m, result |-> FALSE]
    ELSE IF m.ring[m.current] # BufferDescriptorGetBuffer(buf)
         THEN [mem |-> m, result |-> FALSE]
    ELSE [mem |-> [m EXCEPT !.ring[m.current] = InvalidBuffer],
          result |-> TRUE]

\* StrategyRejectBuffer (lines 1061-1080): the strategy after the call and
\* the value returned.
StrategyRejectBuffer(m, buf, from_ring) ==
    IF m.btype # "BAS_BULKREAD" THEN [mem |-> m, result |-> FALSE]
    ELSE IF ~from_ring \/ m.ring[m.current] # BufferDescriptorGetBuffer(buf)
         THEN [mem |-> m, result |-> FALSE]
    ELSE [mem |-> [m EXCEPT !.ring[m.current] = InvalidBuffer],
          result |-> TRUE]

\* Any strategy object: its kind, its size, what its slots hold, its cursor.
InitReject ==
    /\ StrategyInitialize
    /\ ring_btype \in BufferAccessStrategyTypes
    /\ \E n \in 1 .. MaxRing :
          /\ ring_buffers \in [0 .. (n - 1) -> 0 .. NBuffers]
          /\ ring_current \in 0 .. (n - 1)

\* One call of StrategyRejectBuffer; op records the arguments (path is
\* "ring" for from_ring) and the value returned.
RejectBuffer(buf, from_ring) ==
    /\ fault = "none"
    /\ LET r == StrategyRejectBuffer(Mem, buf, from_ring)
       IN  /\ Commit(r.mem)
           /\ op' = Result("reject", buf,
                           IF r.result THEN "true" ELSE "false",
                           IF from_ring THEN "ring" ELSE "none",
                           {}, NoTable, NoTable)
    /\ UNCHANGED << clock, backendVars >>

NextReject == \E buf \in Frames, from_ring \in BOOLEAN : RejectBuffer(buf, from_ring)

SpecReject == InitReject /\ [][NextReject]_vars

\* C17: reject returns true exactly when the ring is a BULKREAD ring, the
\* buffer came from the ring and the slot under the cursor holds it, and then
\* invalidates that slot; otherwise it returns false and changes nothing.
C17_RejectContract ==
    [][op'.name = "reject" =>
          LET mine == /\ ring_btype = "BAS_BULKREAD"
                      /\ op'.path = "ring"
                      /\ ring_buffers[ring_current]
                             = BufferDescriptorGetBuffer(op'.id)
          IN  /\ (op'.outcome = "true") <=> mine
              /\ ring_buffers' = IF mine
                                 THEN [ring_buffers EXCEPT ![ring_current] =
                                                               InvalidBuffer]
                                 ELSE ring_buffers
              /\ ring_current' = ring_current
              /\ ring_btype' = ring_btype]_vars

\* A buffer has been rejected: its slot is now INVALID, another slot of the
\* ring still holds a buffer.
C17_Witness ==
    /\ op.name = "reject"
    /\ op.outcome = "true"
    /\ ring_buffers[ring_current] = InvalidBuffer
    /\ \E i \in DOMAIN ring_buffers : ring_buffers[i] # InvalidBuffer

\* C18: after every completed operation no tier-0 node is above a tier-1
\* node in the ELRU list.
C18_TierDominance ==
    fault = "none" =>
        \A i, j \in 1 .. Len(BottomUp) :
            i < j => ~(Tier(BottomUp[i]) = 1 /\ Tier(BottomUp[j]) = 0)

\* C19: touch(id) completes without fault in every reachable state, and
\* leaves the node in the list exactly once with second_last_accessed equal
\* to its former last_accessed and last_accessed equal to the time of the
\* call, which is not before the former last_accessed.
C19_TouchTotal ==
    (fault = "none" /\ Idle) =>
        \A id \in Frames : \A d \in ClockSteps :
            LET now == clock + d
                m == StrategyAccessBuffer(Mem, id, FALSE, now)
                up == Chain(m.prev, m.bottom, NBuffers + 1)
            IN  /\ m.fault = "none"
                /\ Cardinality({i \in 1 .. Len(up) : up[i] = id}) = 1
                /\ m.sla[id] = last_accessed[id]
                /\ m.la[id] = now
                /\ now >= last_accessed[id]

\* ------------------------------------------- eviction beside other threads
\* The ELRU walk of StrategyGetBuffer holds lru_lock and the victim's header
\* lock; StrategyAccessBuffer holds stack_lock.  Between the clearing of the
\* victim's timestamps (lines 602-603) and the StrategyAccessBuffer call of
\* line 605 no lock keeps another thread's StrategyAccessBuffer out.

\* Lines 582-603: the walk up to the clearing of the victim's timestamps.
RECURSIVE VictimClaim(_, _, _, _)
VictimClaim(m, victim, rc, fuel) ==
    IF victim = NULL THEN [m EXCEPT !.outcome = "undefined", !.path = "elru"]
    ELSE IF fuel = 0
         THEN [m EXCEPT !.fault = "hang", !.outcome = "hang", !.path = "elru"]
    ELSE IF m.locked[victim] THEN [m EXCEPT !.outcome = "blocked"]
    ELSE LET r == [m EXCEPT !.read = @ \cup {victim}]
         IN  IF rc[victim] = 0
             THEN [r EXCEPT !.locked[victim] = TRUE,
                            !.la[victim] = TIMESTAMP_NIL,
                            !.sla[victim] = TIMESTAMP_NIL,
                            !.outcome = "claimed", !.ret = victim,
                            !.path = "elru"]
             ELSE IF r.top = NULL
                  THEN [r EXCEPT !.fault = "segv", !.outcome = "segv",
                                 !.path = "elru"]
             ELSE IF r.top = victim
                  THEN [r EXCEPT !.outcome = "error", !.path = "elru"]
             ELSE VictimClaim(r, r.prev[victim], rc, fuel - 1)

\* A backend finds the free list empty and runs StrategyGetBuffer up to line
\* 603; a call that finds no victim ends here.
Claim(p) ==
    /\ fault = "none"
    /\ Idle
    /\ \A q \in Backends : pc[q] = "idle"
    /\ firstFreeBuffer < 0
    /\ calls < MaxCalls
    /\ calls' = calls + 1
    /\ \E rc \in DescriptorTables :
         LET m == VictimClaim(WakeAndCount(Mem), stackBottom, rc, NBuffers)
         IN  /\ m.outcome # "blocked"
             /\ Observable(m.read, rc, AllZero)
             /\ Commit(m)
             /\ IF m.outcome = "claimed"
                THEN /\ pc' = [pc EXCEPT ![p] = "claimed"]
                     /\ local' = [local EXCEPT ![p].buf = m.ret]
                     /\ op' = op
                ELSE /\ \E got \in Received(m) :
                            op' = Result("acquire", got, m.outcome, m.path,
                                         m.read, rc, AllZero)
                     /\ UNCHANGED << pc, local >>
    /\ UNCHANGED << clock, sync, tally, notices, signals >>
    /\ UNCHANGED lockVars

\* Lines 605-610: StrategyAccessBuffer on the victim, and the return.
Settle(p) ==
    /\ fault = "none"
    /\ pc[p] = "claimed"
    /\ Idle
    /\ \E d \in ClockSteps :
         /\ clock + d <= MaxTime
         /\ LET buf == local[p].buf
                m == Finish(StrategyAccessBuffer(Mem, buf, FALSE, clock + d),
                            buf, "elru")
            IN  /\ Commit(m)
                /\ clock' = clock + d
                /\ op' = Result("acquire", buf, m.outcome, "elru", {buf},
                                AllZero, AllZero)
    /\ pc' = [pc EXCEPT ![p] = "idle"]
    /\ local' = [local EXCEPT ![p].buf = NULL]
    /\ UNCHANGED << sync, calls, tally, notices, signals >>
    /\ UNCHANGED lockVars

NextEvict ==
    \/ \E id \in Frames : Touch(id)
    \/ firstFreeBuffer >= 0 /\ Acquire(FALSE)
    \/ \E p \in Backends : Claim(p)
    \/ \E p \in Backends : Settle(p)
    \/ Return

SpecEvict == Init /\ [][NextEvict]_vars

\* C20: a frame returned through the ELRU path is, on return, resident with
\* second_last_accessed = NIL and last_accessed equal to the time of the
\* allocation, whatever other threads touched meanwhile.
C20_FreshOnReturn ==
    [][(\E p \in Backends : pc[p] = "claimed" /\ pc'[p] = "idle")
           /\ op'.outcome = "returned"
       => /\ last_accessed'[op'.id] # TIMESTAMP_NIL
          /\ last_accessed'[op'.id] = clock'
          /\ second_last_accessed'[op'.id] = TIMESTAMP_NIL]_vars

\* ------------------------------------------------------ keys of a memory
\* The ELRU key of node f in memory m: its tier, then its rank.
KeyOf(m, f) ==
    IF m.sla[f] = TIMESTAMP_NIL THEN << 0, m.la[f] >> ELSE << 1, m.sla[f] >>

\* The list of memory m, bottom to top.
BottomUpOf(m) == Chain(m.prev, m.bottom, NBuffers + 1)

\* C21: when touch inserts a node whose key equals the key of nodes already
\* in the list, the node ends up above every one of them.
C21_TieAbove ==
    (fault = "none" /\ Idle) =>
        \A id \in Frames : \A d \in ClockSteps :
            LET m == StrategyAccessBuffer(Mem, id, FALSE, clock + d)
                up == BottomUpOf(m)
            IN  m.fault = "none" =>
                    \A i, j \in 1 .. Len(up) :
                        (/\ up[i] = id
                         /\ up[j] # id
                         /\ KeyOf(m, up[j]) = KeyOf(m, id)) => j < i

\* ------------------------------------------------------- calls lock by lock
\* Every call cut at its SpinLockAcquire and LockBufHdr: a backend waits at
\* a label until the lock it wants is free.  What is done between taking a
\* lock and the next lock operation is one step.  The state word of a
\* descriptor is read when its header is locked; the buffer manager may have
\* left any pin count and usage count in it.

\* The lock StrategyAccessBuffer would take if it shared the lock of the
\* victim walk.
AccessLockShared == "lru_lock"

\* The lock StrategyAccessBuffer takes (line 330).
AccessLock == "stack_lock"

\* The variables no lock step touches.
statVars == << op, local, sync, calls, tally, notices, signals >>

\* The spinlock a backend waits for at a label, or "none".
WantedSpin(label) ==
    CASE label = "sab_lock" -> AccessLock
      [] label \in {"fl_lock", "free_lock", "sync_lock", "notify_lock"}
             -> "buffer_strategy_lock"
      [] label = "lru_lock" -> "lru_lock"
      [] OTHER -> "none"

\* The backend that holds the lock backend p waits for; 0 if p waits for no
\* lock or the lock is free.
HolderFor(p) ==
    IF WantedSpin(pc[p]) # "none" THEN owner.spin[WantedSpin(pc[p])]
    ELSE IF pc[p] = "hdr_lock" THEN owner.hdr[ctx[p].buf]
    ELSE 0

Take(l, p) == [owner EXCEPT !.spin[l] = p]
Drop(l) == [owner EXCEPT !.spin[l] = 0]

\* A backend with calls left to make enters one.
MayCall(p) ==
    /\ fault = "none"
    /\ pc[p] = "idle"
    /\ ctx[p].n < MaxOps

\* touch(id): StrategyAccessBuffer(id, false) is entered.
CallTouch(p, id) ==
    /\ MayCall(p)
    /\ ctx' = [ctx EXCEPT ![p] = [call |-> "touch", buf |-> id, n |-> @.n + 1]]
    /\ pc' = [pc EXCEPT ![p] = "sab_lock"]
    /\ Commit(Mem)
    /\ UNCHANGED << clock, owner, statVars >>

\* release_frame(id): StrategyFreeBuffer is entered.
CallFree(p, id) ==
    /\ MayCall(p)
    /\ ctx' = [ctx EXCEPT ![p] = [call |-> "free", buf |-> id, n |-> @.n + 1]]
    /\ pc' = [pc EXCEPT ![p] = "free_lock"]
    /\ Commit(Mem)
    /\ UNCHANGED << clock, owner, statVars >>

\* sync_start or notify_bgwriter is entered.
CallStat(p, label) ==
    /\ MayCall(p)
    /\ ctx' = [ctx EXCEPT ![p] = [call |-> "stat", buf |-> NULL, n |-> @.n + 1]]
    /\ pc' = [pc EXCEPT ![p] = label]
    /\ Commit(Mem)
    /\ UNCHANGED << clock, owner, statVars >>

\* Lines 491-528 on memory m: wake, count, and look at the free list without
\* a lock.
AfterCount(m) == IF m.first >= 0 THEN "fl_lock" ELSE "lru_lock"

\* acquire_frame: lines 462-528 up to the first lock operation.
CallGet(p, strategy) ==
    /\ MayCall(p)
    /\ strategy => p = 1
    /\ LET cur == IF ring_current + 1 >= RingSize THEN 0 ELSE ring_current + 1
           m1 == IF strategy THEN [Mem EXCEPT !.current = cur] ELSE Mem
           bufnum == IF strategy THEN m1.ring[cur] ELSE InvalidBuffer
       IN  IF bufnum # InvalidBuffer
           THEN /\ Commit(m1)
                /\ ctx' = [ctx EXCEPT ![p] = [call |-> "ring",
                                             buf |-> bufnum - 1,
                                             n |-> @.n + 1]]
                /\ pc' = [pc EXCEPT ![p] = "hdr_lock"]
           ELSE LET m2 == WakeAndCount(m1)
                IN  /\ Commit(m2)
                    /\ ctx' = [ctx EXCEPT ![p] = [call |-> "get",
                                                 buf |-> NULL,
                                                 n |-> @.n + 1]]
                    /\ pc' = [pc EXCEPT ![p] = AfterCount(m2)]
    /\ UNCHANGED << clock, owner, statVars >>

\* Line 533: the free list loop takes buffer_strategy_lock.
LockFreeList(p) ==
    /\ fault = "none"
    /\ pc[p] = "fl_lock"
    /\ owner.spin["buffer_strategy_lock"] = 0
    /\ owner' = Take("buffer_strategy_lock", p)
    /\ pc' = [pc EXCEPT ![p] = "fl_pop"]
    /\ Commit(Mem)
    /\ UNCHANGED << clock, ctx, statVars >>

\* Lines 535-552: pop the head of the free list, or leave the loop.
PopFreeList(p) ==
    /\ fault = "none"
    /\ pc[p] = "fl_pop"
    /\ owner' = Drop("buffer_strategy_lock")
    /\ IF firstFreeBuffer < 0
       THEN /\ pc' = [pc EXCEPT ![p] = "lru_lock"]
            /\ Commit(Mem)
            /\ ctx' = ctx
       ELSE LET buf == firstFreeBuffer
            IN  /\ Commit([Mem EXCEPT !.first = freeNext[buf],
                                      !.freeNext[buf] = FREENEXT_NOT_IN_LIST])
                /\ ctx' = [ctx EXCEPT ![p].call = "freelist", ![p].buf = buf]
                /\ pc' = [pc EXCEPT ![p] = "hdr_lock"]
    /\ UNCHANGED << clock, statVars >>

\* Line 582-584: the walk takes lru_lock and starts at the bottom.
LockLru(p) ==
    /\ fault = "none"
    /\ pc[p] = "lru_lock"
    /\ owner.spin["lru_lock"] = 0
    /\ IF stackBottom = NULL
       THEN /\ owner' = owner
            /\ ctx' = [ctx EXCEPT ![p].call = "none", ![p].buf = NULL]
            /\ pc' = [pc EXCEPT ![p] = "idle"]
       ELSE /\ owner' = Take("lru_lock", p)
            /\ ctx' = [ctx EXCEPT ![p].call = "elru", ![p].buf = stackBottom]
            /\ pc' = [pc EXCEPT ![p] = "hdr_lock"]
    /\ Commit(Mem)
    /\ UNCHANGED << clock, statVars >>

\* LockBufHdr at lines 989, 563 and 598, and what follows up to the next
\* lock operation.
LockHeader(p) ==
    /\ fault = "none"
    /\ pc[p] = "hdr_lock"
    /\ owner.hdr[ctx[p].buf] = 0
    /\ \E refcount \in 0 .. MaxRef, usage_count \in 0 .. MaxUsage :
         LET buf == ctx[p].buf
             kept == [owner EXCEPT !.hdr[buf] = p]
             locked == [Mem EXCEPT !.locked[buf] = TRUE]
         IN  CASE ctx[p].call = "ring" ->
                    IF refcount = 0 /\ usage_count <= 1
                    THEN /\ owner' = kept
                         /\ Commit(locked)
                         /\ pc' = [pc EXCEPT ![p] = "sab_lock"]
                         /\ ctx' = ctx
                    ELSE LET m2 == WakeAndCount(Mem)
                         IN  /\ owner' = owner
                             /\ Commit(m2)
                             /\ pc' = [pc EXCEPT ![p] = AfterCount(m2)]
                             /\ ctx' = [ctx EXCEPT ![p].call = "get"]
                [] ctx[p].call = "freelist" ->
                    IF refcount = 0 /\ usage_count = 0
                    THEN /\ owner' = kept
                         /\ Commit(locked)
                         /\ pc' = [pc EXCEPT ![p] = "sab_lock"]
                         /\ ctx' = ctx
                    ELSE /\ owner' = owner
                         /\ Commit(Mem)
                         /\ pc' = [pc EXCEPT ![p] = "fl_lock"]
                         /\ ctx' = ctx
                [] OTHER ->
                    IF refcount = 0
                    THEN /\ owner' = kept
                         /\ Commit([locked EXCEPT
                                       !.la[buf] = TIMESTAMP_NIL,
                                       !.sla[buf] = TIMESTAMP_NIL])
                         /\ pc' = [pc EXCEPT ![p] = "sab_lock"]
                         /\ ctx' = ctx
                    ELSE IF stackTop = NULL
                    THEN /\ owner' = kept
                         /\ Commit([locked EXCEPT !.fault = "segv"])
                         /\ UNCHANGED << pc, ctx >>
                    ELSE IF stackTop = buf
                    THEN /\ owner' = Drop("lru_lock")
                         /\ Commit(Mem)
                         /\ pc' = [pc EXCEPT ![p] = "idle"]
                         /\ ctx' = [ctx EXCEPT ![p].call = "none",
                                               ![p].buf = NULL]
                    ELSE IF prev[buf] = NULL
                    THEN /\ owner' = Drop("lru_lock")
                         /\ Commit(Mem)
                         /\ pc' = [pc EXCEPT ![p] = "idle"]
                         /\ ctx' = [ctx EXCEPT ![p].call = "none",
                                               ![p].buf = NULL]
                    ELSE /\ owner' = owner
                         /\ Commit(Mem)
                         /\ pc' = pc
                         /\ ctx' = [ctx EXCEPT ![p].buf = prev[buf]]
    /\ UNCHANGED << clock, statVars >>

\* Line 330: StrategyAccessBuffer takes its lock.
LockStack(p) ==
    /\ fault = "none"
    /\ pc[p] = "sab_lock"
    /\ owner.spin[AccessLock] = 0
    /\ owner' = Take(AccessLock, p)
    /\ pc' = [pc EXCEPT ![p] = "sab_body"]
    /\ Commit(Mem)
    /\ UNCHANGED << clock, ctx, statVars >>

\* Where a call goes on after StrategyAccessBuffer returns.
AfterAccess(call) ==
    CASE call = "touch" -> "idle"
      [] call = "elru" -> "elru_unlock"
      [] call = "free" -> "free_unlock"
      [] OTHER -> "held"

\* Lines 331-438: the body of StrategyAccessBuffer and the release of its
\* lock.  A call that faults dies with the lock held.
AccessBody(p) ==
    /\ fault = "none"
    /\ pc[p] = "sab_body"
    /\ \E d \in ClockSteps :
         /\ clock + d <= MaxTime
         /\ LET m == StrategyAccessBuffer(Mem, ctx[p].buf,
                                          ctx[p].call = "free", clock + d)
            IN  /\ Commit(m)
                /\ clock' = clock + d
                /\ owner' = IF m.fault = "none" THEN Drop(AccessLock)
                            ELSE owner
    /\ pc' = [pc EXCEPT ![p] = AfterAccess(ctx[p].call)]
    /\ ctx' = IF ctx[p].call = "touch"
              THEN [ctx EXCEPT ![p].call = "none", ![p].buf = NULL]
              ELSE ctx
    /\ UNCHANGED statVars

\* Line 609: the walk releases lru_lock and returns the locked victim.
UnlockLru(p) ==
    /\ fault = "none"
    /\ pc[p] = "elru_unlock"
    /\ owner' = Drop("lru_lock")
    /\ pc' = [pc EXCEPT ![p] = "held"]
    /\ Commit(Mem)
    /\ UNCHANGED << clock, ctx, statVars >>

\* The caller of StrategyGetBuffer unlocks the header it was handed.
UnlockHeader(p) ==
    /\ fault = "none"
    /\ pc[p] = "held"
    /\ owner' = [owner EXCEPT !.hdr[ctx[p].buf] = 0]
    /\ Commit([Mem EXCEPT !.locked[ctx[p].buf] = FALSE])
    /\ pc' = [pc EXCEPT ![p] = "idle"]
    /\ ctx' = [ctx EXCEPT ![p].call = "none", ![p].buf = NULL]
    /\ UNCHANGED << clock, statVars >>

\* Lines 634-646: StrategyFreeBuffer takes buffer_strategy_lock and pushes.
LockFree(p) ==
    /\ fault = "none"
    /\ pc[p] = "free_lock"
    /\ owner.spin["buffer_strategy_lock"] = 0
    /\ owner' = Take("buffer_strategy_lock", p)
    /\ LET buf == ctx[p].buf
       IN  IF freeNext[buf] = FREENEXT_NOT_IN_LIST
           THEN /\ Commit([Mem EXCEPT
                              !.freeNext[buf] = firstFreeBuffer,
                              !.last = IF firstFreeBuffer < 0 THEN buf ELSE @,
                              !.first = buf])
                /\ pc' = [pc EXCEPT ![p] = "sab_lock"]
           ELSE /\ Commit(Mem)
                /\ pc' = [pc EXCEPT ![p] = "free_unlock"]
    /\ UNCHANGED << clock, ctx, statVars >>

\* Line 650: StrategyFreeBuffer releases buffer_strategy_lock.
UnlockFree(p) ==
    /\ fault = "none"
    /\ pc[p] = "free_unlock"
    /\ owner' = Drop("buffer_strategy_lock")
    /\ pc' = [pc EXCEPT ![p] = "idle"]
    /\ ctx' = [ctx EXCEPT ![p].call = "none", ![p].buf = NULL]
    /\ Commit(Mem)
    /\ UNCHANGED << clock, statVars >>

\* StrategySyncStart (lines 670-689) or StrategyNotifyBgWriter (709-711):
\* buffer_strategy_lock is taken, the body runs, the lock is released.
StatLocked(p) ==
    /\ fault = "none"
    /\ pc[p] \in {"sync_lock", "notify_lock"}
    /\ owner.spin["buffer_strategy_lock"] = 0
    /\ IF pc[p] = "sync_lock"
       THEN Commit(StrategySyncStart(Mem).mem)
       ELSE \E procno \in Procnos \cup {NoProc} :
                Commit(StrategyNotifyBgWriter(Mem, procno))
    /\ pc' = [pc EXCEPT ![p] = "idle"]
    /\ ctx' = [ctx EXCEPT ![p].call = "none"]
    /\ UNCHANGED << clock, owner, statVars >>

NextLocks ==
    \/ \E p \in Backends, id \in Frames : CallTouch(p, id)
    \/ \E p \in Backends, id \in Frames : CallFree(p, id)
    \/ \E p \in Backends, label \in {"sync_lock", "notify_lock"} :
           CallStat(p, label)
    \/ \E p \in Backends, strategy \in BOOLEAN : CallGet(p, strategy)
    \/ \E p \in Backends : LockFreeList(p)
    \/ \E p \in Backends : PopFreeList(p)
    \/ \E p \in Backends : LockLru(p)
    \/ \E p \in Backends : LockHeader(p)
    \/ \E p \in Backends : LockStack(p)
    \/ \E p \in Backends : AccessBody(p)
    \/ \E p \in Backends : UnlockLru(p)
    \/ \E p \in Backends : UnlockHeader(p)
    \/ \E p \in Backends : LockFree(p)
    \/ \E p \in Backends : UnlockFree(p)
    \/ \E p \in Backends : StatLocked(p)

SpecLocks == Init /\ [][NextLocks]_vars

\* C22: one lock guards the whole ELRU list, so that no backend is inside
\* StrategyAccessBuffer while another backend is inside the victim walk.
C22_SingleListLock ==
    \A p, q \in Backends :
        ~(/\ p # q
          /\ owner.spin["lru_lock"] = p
          /\ owner.spin["stack_lock"] = q)

\* C23: no backend takes the lock of the list while it holds a descriptor
\* header lock.
C23_LockOrder ==
    \A p \in Backends : \A f \in Frames :
        owner.hdr[f] = p =>
            /\ owner.spin["stack_lock"] # p
            /\ pc[p] \notin {"sab_lock", "lru_lock", "fl_lock", "free_lock"}

\* C25: no set of backends is such that each waits for a lock held by a
\* backend of the set.
C25_NoDeadlock ==
    ~ \E S \in SUBSET Backends :
          /\ S # {}
          /\ \A p \in S : HolderFor(p) \in S

\* A walker holds lru_lock and waits for the header of its victim, which
\* another backend was handed and still holds.
C25_Witness ==
    /\ fault = "none"
    /\ \E p, q \in Backends :
          /\ p # q
          /\ owner.spin["lru_lock"] = p
          /\ pc[p] = "hdr_lock"
          /\ HolderFor(p) = q
          /\ pc[q] = "held"

\* ------------------------------------------------------ comparator and keys
Sign(x) == IF x > 0 THEN 1 ELSE IF x < 0 THEN -1 ELSE 0

\* The order of the keys of a and b in memory m: -1, 0 or 1 as key(a) is
\* less than, equal to or greater than key(b); tier first, then rank.
KeyOrder(m, a, b) ==
    IF KeyOf(m, a)[1] # KeyOf(m, b)[1]
    THEN Sign(KeyOf(m, a)[1] - KeyOf(m, b)[1])
    ELSE Sign(KeyOf(m, a)[2] - KeyOf(m, b)[2])

\* C24: for every pair of resident nodes the sign of the comparator is the
\* order of their keys.
C24_ComparatorAgrees ==
    fault = "none" =>
        \A a, b \in Frames :
            (Resident(a) /\ Resident(b)) =>
                Sign(compareELRU(Mem, a, b)) = KeyOrder(Mem, a, b)

\* The sequence q without the entries equal to id.
RECURSIVE Without(_, _)
Without(q, id) ==
    IF q = << >> THEN << >>
    ELSE IF Head(q) = id THEN Without(Tail(q), id)
    ELSE << Head(q) >> \o Without(Tail(q), id)

\* C26: touch(id) changes only the timestamps and the position of node id:
\* the timestamps of the other nodes, the bottom-to-top order of the other
\* nodes of the list and the free list are as before.
C26_TouchFrame ==
    (fault = "none" /\ Idle) =>
        \A id \in Frames : \A d \in ClockSteps :
            LET m == StrategyAccessBuffer(Mem, id, FALSE, clock + d)
            IN  m.fault = "none" =>
                    /\ \A f \in Frames \ {id} :
                           /\ m.la[f] = last_accessed[f]
                           /\ m.sla[f] = second_last_accessed[f]
                    /\ Without(BottomUpOf(m), id) = Without(BottomUp, id)
                    /\ m.first = firstFreeBuffer
                    /\ m.last = lastFreeBuffer
                    /\ m.freeNext = freeNext
====
